---------------------------- MODULE Spec2Model ----------------------------
(***************************************************************************)
(* Geosite2ABP (src/geosite2abp.py): conversion of geosite rule lists to   *)
(* AdBlock-Plus rules.  A text string is a sequence of one-character       *)
(* strings, so that slicing, splitting and prefix tests are computed as    *)
(* the Python code computes them.                                          *)
(***************************************************************************)
EXTENDS Integers, Sequences, FiniteSets, TLC

(***************************************************************************)
(* Bounds of the model.                                                    *)
(***************************************************************************)
\* longest pattern handed to _convert_go_regex_to_js in RegexSpec
MaxPatLen == 4
\* longest rule body handed to the domain normalisation in NormSpec
MaxDomLen == 5
\* longest raw line handed to _process_line in LineSpec
MaxRawLen == 4
\* most lines in one fetched body
MaxBodyLines == 2
\* most root items on the command line
MaxItems == 2

(***************************************************************************)
(* Characters and the str methods the code uses.                           *)
(***************************************************************************)
BS == "\\"

UpperCase == <<"A", "B", "C", "D", "E", "F", "G", "H", "I", "J", "K", "L", "M",
               "N", "O", "P", "Q", "R", "S", "T", "U", "V", "W", "X", "Y", "Z">>

LowerCase == <<"a", "b", "c", "d", "e", "f", "g", "h", "i", "j", "k", "l", "m",
               "n", "o", "p", "q", "r", "s", "t", "u", "v", "w", "x", "y", "z">>

Digits == {"0", "1", "2", "3", "4", "5", "6", "7", "8", "9"}

Whitespace == {" ", "\t"}

Range(f) == {f[i] : i \in DOMAIN f}

\* str.lower() on one character
LowerChar(c) ==
    IF \E i \in 1..26 : UpperCase[i] = c
    THEN LowerCase[CHOOSE i \in 1..26 : UpperCase[i] = c]
    ELSE c

Lower(s) == [i \in 1..Len(s) |-> LowerChar(s[i])]

StartsWith(s, p) == Len(s) >= Len(p) /\ SubSeq(s, 1, Len(p)) = p

\* index of the first character of s that is in set cs, 0 when there is none
FirstIn(s, cs) ==
    IF \E i \in 1..Len(s) : s[i] \in cs
    THEN CHOOSE i \in 1..Len(s) : s[i] \in cs /\ \A j \in 1..(i - 1) : s[j] \notin cs
    ELSE 0

\* index of the first character of s that is not in set cs, Len(s)+1 when all are
FirstNotIn(s, cs) ==
    IF \E i \in 1..Len(s) : s[i] \notin cs
    THEN CHOOSE i \in 1..Len(s) : s[i] \notin cs /\ \A j \in 1..(i - 1) : s[j] \in cs
    ELSE Len(s) + 1

\* index of the last character of s that is not in set cs, 0 when all are
LastNotIn(s, cs) ==
    IF \E i \in 1..Len(s) : s[i] \notin cs
    THEN CHOOSE i \in 1..Len(s) :
             s[i] \notin cs /\ \A j \in (i + 1)..Len(s) : s[j] \in cs
    ELSE 0

\* s.lstrip(cs), s.rstrip(cs), and s.strip() for whitespace
LStripChars(s, cs) == SubSeq(s, FirstNotIn(s, cs), Len(s))

RStripChars(s, cs) == SubSeq(s, 1, LastNotIn(s, cs))

Strip(s) == RStripChars(LStripChars(s, Whitespace), Whitespace)

\* s.split(c)[0] == s.split(c, 1)[0]: the text before the first c
BeforeFirst(s, cs) ==
    IF FirstIn(s, cs) = 0 THEN s ELSE SubSeq(s, 1, FirstIn(s, cs) - 1)

\* s.split(c, 1)[1]: the text after the first c (callers know c occurs)
AfterFirst(s, cs) == SubSeq(s, FirstIn(s, cs) + 1, Len(s))

\* every string over alphabet cs of length at most n
StringsUpTo(cs, n) == UNION {[1..k -> cs] : k \in 0..n}

(***************************************************************************)
(* _convert_go_regex_to_js and its three compiled patterns.                *)
(***************************************************************************)
\* a variant of SubAnchor that does not look behind the backslash
RECURSIVE SubAnchorNoLookbehind(_, _, _, _)
SubAnchorNoLookbehind(s, i, targets, repl) ==
    IF i > Len(s) THEN <<>>
    ELSE IF s[i] = BS /\ i < Len(s) /\ s[i + 1] \in targets
         THEN repl \o SubAnchorNoLookbehind(s, i + 2, targets, repl)
         ELSE <<s[i]>> \o SubAnchorNoLookbehind(s, i + 1, targets, repl)

\* re.sub of the pattern (?<!\\)\\[targets] by repl, scanning s from index i:
\* a backslash followed by a target character and not preceded by a backslash
\* in the subject string is replaced, and the scan goes on after the match.
RECURSIVE SubAnchor(_, _, _, _)
SubAnchor(s, i, targets, repl) ==
    IF i > Len(s) THEN <<>>
    ELSE IF /\ s[i] = BS /\ i < Len(s) /\ s[i + 1] \in targets
            /\ (i = 1 \/ s[i - 1] # BS)
         THEN repl \o SubAnchor(s, i + 2, targets, repl)
         ELSE <<s[i]>> \o SubAnchor(s, i + 1, targets, repl)

\* re.sub of the pattern (?<!\\)/ by \/
RECURSIVE SubSlash(_, _)
SubSlash(s, i) ==
    IF i > Len(s) THEN <<>>
    ELSE IF s[i] = "/" /\ (i = 1 \/ s[i - 1] # BS)
         THEN <<BS, "/">> \o SubSlash(s, i + 1)
         ELSE <<s[i]>> \o SubSlash(s, i + 1)

\* a variant of RE_GO_ANCHOR_A without the lookbehind
RE_GO_ANCHOR_A_sub_any(s) == SubAnchorNoLookbehind(s, 1, {"A"}, <<"^">>)

RE_GO_ANCHOR_A_sub(s) == SubAnchor(s, 1, {"A"}, <<"^">>)

RE_GO_ANCHOR_Z_sub(s) == SubAnchor(s, 1, {"z", "Z"}, <<"$">>)

RE_JS_SLASH_sub(s) == SubSlash(s, 1)

convert_go_regex_to_js(pattern) ==
    RE_JS_SLASH_sub(RE_GO_ANCHOR_Z_sub(RE_GO_ANCHOR_A_sub(pattern)))

(***************************************************************************)
(* _process_line, steps 3 and 5: inline comments and domain normalisation. *)
(***************************************************************************)
\* \w of the re module, on the characters of the model
IsWordChar(c) == c \in Range(LowerCase) \cup Range(UpperCase) \cup Digits \cup {"_"}

SchemeChars(s) == {c \in Range(s) : IsWordChar(c) \/ c \in {"+", "-", "."}}

\* RE_PROTOCOL.sub('', s): a leading run of [\w+-.] followed by :// is removed
RE_PROTOCOL_sub(s) ==
    LET n == FirstNotIn(s, SchemeChars(s)) - 1
    IN IF n >= 1 /\ Len(s) >= n + 3 /\ SubSeq(s, n + 1, n + 3) = <<":", "/", "/">>
       THEN SubSeq(s, n + 4, Len(s))
       ELSE s

\* RE_LEADING_WILDCARD.sub('', s): one leading *. is removed
RE_LEADING_WILDCARD_sub(s) ==
    IF StartsWith(s, <<"*", ".">>) THEN SubSeq(s, 3, Len(s)) ELSE s

\* a variant that keeps leading dots
NormalizeDomainKeepDots(s) ==
    RE_LEADING_WILDCARD_sub(BeforeFirst(BeforeFirst(RE_PROTOCOL_sub(s), {"/"}), {":"}))

\* lines 165-166
NormalizeDomain(s) ==
    LStripChars(
        RE_LEADING_WILDCARD_sub(
            BeforeFirst(BeforeFirst(RE_PROTOCOL_sub(s), {"/"}), {":"})),
        {"."})

\* index of the first @ or # of s that no backslash precedes, 0 when none
FirstUnescapedMarker(s) ==
    LET ok(i) == s[i] \in {"@", "#"} /\ (i = 1 \/ s[i - 1] # BS)
    IN IF \E i \in 1..Len(s) : ok(i)
       THEN CHOOSE i \in 1..Len(s) : ok(i) /\ \A j \in 1..(i - 1) : ~ok(j)
       ELSE 0

\* a variant that honours backslash escapes
RemoveInlineCommentEscaped(s) ==
    RStripChars(IF FirstUnescapedMarker(s) = 0 THEN s
                ELSE SubSeq(s, 1, FirstUnescapedMarker(s) - 1), Whitespace)

\* line 135: RE_INLINE_COMMENT.split(s, 1)[0].rstrip()
RemoveInlineComment(s) == RStripChars(BeforeFirst(s, {"@", "#"}), Whitespace)


(***************************************************************************)
(* _process_line as a function of the raw line: what the call does to the  *)
(* processor.  kind "blank" and "comment" append text; "regexp" and "rule" *)
(* append text and add one to rule_count; "include" calls                  *)
(* _fetch_and_process(text); "drop" returns without any effect.            *)
(***************************************************************************)
Str_include == <<"i", "n", "c", "l", "u", "d", "e", ":">>

Str_regexp == <<"r", "e", "g", "e", "x", "p", ":">>

Str_full == <<"f", "u", "l", "l", ":">>

Effect(k, t) == [kind |-> k, text |-> t]

\* lines 164-175, for the rule body s
DomainRule(s, is_full) ==
    LET d == NormalizeDomain(s)
    IN IF d = <<>> THEN Effect("drop", <<>>)
       ELSE Effect("rule", (IF is_full THEN <<"|">> ELSE <<"|", "|">>) \o d)

\* lines 139-175, for the text s left by step 3
Directive(s) ==
    LET low == Lower(s)
        val == Strip(AfterFirst(s, {":"}))
    IN IF StartsWith(low, Str_include)
       THEN IF val # <<>> THEN Effect("include", val) ELSE Effect("drop", <<>>)
       ELSE IF StartsWith(low, Str_regexp)
       THEN IF val = <<>> THEN Effect("drop", <<>>)
            ELSE Effect("regexp", <<"/">> \o convert_go_regex_to_js(val) \o <<"/">>)
       ELSE IF StartsWith(low, Str_full)
       THEN IF val = <<>> THEN Effect("drop", <<>>) ELSE DomainRule(val, TRUE)
       ELSE DomainRule(s, FALSE)

\* lines 117-137
ProcessLine(raw_line) ==
    LET s == Strip(raw_line)
    IN IF s = <<>> THEN Effect("blank", <<>>)
       ELSE IF StartsWith(s, <<"#">>) THEN Effect("comment", <<"!">> \o Tail(s))
       ELSE IF StartsWith(s, <<"/", "/">>) THEN Effect("comment", <<"!">> \o Tail(Tail(s)))
       ELSE IF StartsWith(s, <<"!">>) THEN Effect("comment", s)
       ELSE IF RemoveInlineComment(s) = <<>> THEN Effect("drop", <<>>)
       ELSE Directive(RemoveInlineComment(s))

(***************************************************************************)
(* State.                                                                  *)
(***************************************************************************)
VARIABLES
    arg, ret, fn,        \* a pure function applied on its own: argument, result, name
    items,               \* main: the parsed root items
    pool,                \* the raw lines the remote resources are made of
    pc,                  \* main: "open", "loop", "process", "done", or "idle"
    idx,                 \* main: index in items of the current root item
    file,                \* the output file: what was written to it
    errors,              \* main: the reports of lines 291 and 294, each
                         \* <<report, item, exception>>
    exit_code,           \* status the process ends with, -1 while it runs
    started,             \* the items a GeositeProcessor was constructed for
    item, template, root_url, visited, out_lines, rule_count,  \* the processor
    stack,               \* the active _fetch_and_process calls, innermost last
    fetchlog,            \* the _fetch_url calls of the current processor
    refs,                \* the (includer, included) pairs of the current processor
    last                 \* the step taken last

pure == <<arg, ret, fn>>

proc == <<item, template, root_url, visited, out_lines, rule_count, stack, fetchlog, refs>>

mainv == <<items, pool, pc, idx, file, errors, exit_code, started>>

vars == <<arg, ret, fn, items, pool, pc, idx, file, errors, exit_code, started,
          item, template, root_url, visited, out_lines, rule_count, stack,
          fetchlog, refs, last>>

(***************************************************************************)
(* Names, URL templates and the block borders.                             *)
(***************************************************************************)
Name_gfw == <<"g", "f", "w">>

Name_b == <<"b">>

Name_c == <<"c">>

\* lines 27-35
KNOWN == { Name_gfw,
           <<"c", "h", "i", "n", "a", "-", "l", "i", "s", "t">>,
           <<"a", "p", "p", "l", "e", "-", "c", "n">>,
           <<"g", "o", "o", "g", "l", "e", "-", "c", "n">>,
           <<"w", "i", "n", "-", "s", "p", "y">>,
           <<"w", "i", "n", "-", "u", "p", "d", "a", "t", "e">>,
           <<"w", "i", "n", "-", "e", "x", "t", "r", "a">> }

\* a template is the text before and the text after its {it} field
TemplateKnown ==
    <<"https://raw.githubusercontent.com/Loyalsoldier/v2ray-rules-dat/release/", ".txt">>

TemplateCommunity ==
    <<"https://raw.githubusercontent.com/v2fly/domain-list-community/master/data/", "">>

\* lines 92-95
SelectTemplate(it) == IF it \in KNOWN THEN TemplateKnown ELSE TemplateCommunity

\* template.format(it=it): the name between the two parts of the template
Format(tpl, it) == <<tpl[1], it, tpl[2]>>

\* a variant that classifies every name on its own
FetchUrlOwnTemplate(it) == Format(SelectTemplate(it), it)

\* line 190
FetchUrl(it) == Format(template, it)

BLOCK_WIDTH == 48

Repeat(c, n) == [i \in 1..n |-> c]

Str_BEGIN == <<"B", "E", "G", "I", "N">>

Str_EOF == <<"E", "O", "F">>

\* lines 43-52; str.center puts the odd fill character on the left here,
\* the width BLOCK_WIDTH - 1 being odd
make_border_line(it, kind) ==
    LET full == it \o <<" ">> \o kind
        core == SubSeq(full, 1, IF Len(full) < BLOCK_WIDTH - 1 THEN Len(full)
                                ELSE BLOCK_WIDTH - 1)
        marg == (BLOCK_WIDTH - 1) - Len(core)
        left == (marg \div 2) + (marg % 2)
    IN <<"!">> \o Repeat("-", left) \o core \o Repeat("-", marg - left)

\* lines 274-283: the block of one root item
Block(it, lines) ==
    <<make_border_line(it, Str_BEGIN), <<>>>>
    \o (IF lines # <<>> THEN lines \o <<<<>>>> ELSE <<>>)
    \o <<make_border_line(it, Str_EOF)>>

(***************************************************************************)
(* The initial state: main after argument parsing (line 249), no processor *)
(* constructed yet.                                                        *)
(***************************************************************************)
NoStep == [op |-> "none", name |-> <<>>, kind |-> "none"]

Step(o, n, k) == [op |-> o, name |-> n, kind |-> k]

NoCall == arg = <<>> /\ ret = <<>> /\ fn = "none"

NoProcessor ==
    /\ item = <<>> /\ template = <<"", "">> /\ root_url = <<"", <<>>, "">>
    /\ visited = {} /\ out_lines = <<>> /\ rule_count = 0
    /\ stack = <<>> /\ fetchlog = <<>> /\ refs = {}

ItemLists(names, n) == UNION {[1..k -> names] : k \in 1..n}

InitMain(lists, lines) ==
    /\ NoCall
    /\ items \in lists
    /\ pool = lines
    /\ pc = "open" /\ idx = 1
    /\ file = [header |-> <<>>, blocks |-> <<>>]
    /\ errors = <<>> /\ exit_code = -1 /\ started = <<>>
    /\ NoProcessor
    /\ last = NoStep

(***************************************************************************)
(* main, lines 251-295.                                                    *)
(***************************************************************************)
\* lines 252-262: the file is opened and its header written
OpenOutput ==
    /\ pc = "open"
    /\ file' = [file EXCEPT !.header = items]
    /\ pc' = "loop"
    /\ last' = Step("open", <<>>, "ok")
    /\ UNCHANGED <<pure, proc, items, pool, idx, errors, exit_code, started>>

\* lines 252-262 raise IOError: lines 293-295
OpenOutputFails ==
    /\ pc = "open"
    /\ errors' = Append(errors, <<"write", <<>>, "IOError">>)
    /\ exit_code' = 1
    /\ pc' = "done"
    /\ last' = Step("open", <<>>, "ioerror")
    /\ UNCHANGED <<pure, proc, items, pool, idx, file, started>>

\* a variant that keeps the visited set of the processor before
NewVisitedShared == visited

\* line 87
NewVisited == {}

\* lines 265-270: GeositeProcessor(it), then process() calls
\* _fetch_and_process(self.item)
StartItem ==
    /\ pc = "loop" /\ idx <= Len(items)
    /\ item' = items[idx]
    /\ visited' = NewVisited
    /\ out_lines' = <<>>
    /\ rule_count' = 0
    /\ template' = SelectTemplate(items[idx])
    /\ root_url' = Format(SelectTemplate(items[idx]), items[idx])
    /\ stack' = <<[it |-> items[idx], at |-> "entry", left |-> 0]>>
    /\ fetchlog' = <<>>
    /\ refs' = {}
    /\ started' = Append(started, items[idx])
    /\ pc' = "process"
    /\ last' = Step("start", items[idx], "ok")
    /\ UNCHANGED <<pure, items, pool, idx, file, errors, exit_code>>

\* lines 270-288: process() has returned and the block is written
WriteBlock ==
    /\ pc = "process" /\ stack = <<>>
    /\ file' = [file EXCEPT !.blocks = Append(@, Block(item, out_lines))]
    /\ idx' = idx + 1
    /\ pc' = "loop"
    /\ last' = Step("write", item, "ok")
    /\ UNCHANGED <<pure, proc, items, pool, errors, exit_code, started>>

\* lines 285-286 raise IOError, which line 290 catches: Exception is a base
\* class of OSError
WriteBlockFails ==
    /\ pc = "process" /\ stack = <<>>
    /\ errors' = Append(errors, <<"unexpected", item, "IOError">>)
    /\ idx' = idx + 1
    /\ pc' = "loop"
    /\ last' = Step("write", item, "ioerror")
    /\ UNCHANGED <<pure, proc, items, pool, file, exit_code, started>>

\* the loop is over and the with statement closes the file: main returns
Finish ==
    /\ pc = "loop" /\ idx > Len(items)
    /\ exit_code' = 0
    /\ pc' = "done"
    /\ last' = Step("close", <<>>, "ok")
    /\ UNCHANGED <<pure, proc, items, pool, idx, file, errors, started>>

\* closing the file raises IOError (the buffered data cannot be flushed):
\* lines 293-295
FinishFails ==
    /\ pc = "loop" /\ idx > Len(items)
    /\ errors' = Append(errors, <<"write", <<>>, "IOError">>)
    /\ exit_code' = 1
    /\ pc' = "done"
    /\ last' = Step("close", <<>>, "ioerror")
    /\ UNCHANGED <<pure, proc, items, pool, idx, file, started>>

(***************************************************************************)
(* GeositeProcessor._fetch_and_process, lines 177-196.  A frame of stack   *)
(* is one active call: at "entry" it is about to run line 182, at "loop"   *)
(* it is in the loop of lines 195-196 with `left` lines still to read.     *)
(* The lines of a fetched body are drawn from pool when the loop reads     *)
(* them: the code sees a body only through that loop.                      *)
(***************************************************************************)
Top == stack[Len(stack)]

Pop == SubSeq(stack, 1, Len(stack) - 1)

\* a variant that never finds a name visited
IsVisitedNever(it) == FALSE

\* line 182
IsVisited(it) == it \in visited

\* a variant that never marks a name
MarkVisitedNever(it) == visited

\* line 184
MarkVisited(it) == visited \cup {it}

\* lines 187-188
WithSeparator(lines) ==
    IF lines # <<>> /\ lines[Len(lines)] # <<>> THEN Append(lines, <<>>) ELSE lines

Fetched(it, res) == [it |-> it, url |-> FetchUrl(it), result |-> res]

\* lines 182-183: the name was visited, the call returns
CallSkipped ==
    /\ pc = "process" /\ stack # <<>> /\ Top.at = "entry"
    /\ IsVisited(Top.it)
    /\ stack' = Pop
    /\ last' = Step("skip", Top.it, "visited")
    /\ UNCHANGED <<pure, mainv, item, template, root_url, visited, out_lines,
                   rule_count, fetchlog, refs>>

\* lines 184-193: _fetch_url returns "" (URLError or TimeoutError, lines
\* 107-109) or the body is empty, and the call returns
FetchFails ==
    /\ pc = "process" /\ stack # <<>> /\ Top.at = "entry"
    /\ ~IsVisited(Top.it)
    /\ visited' = MarkVisited(Top.it)
    /\ out_lines' = WithSeparator(out_lines)
    /\ fetchlog' = Append(fetchlog, Fetched(Top.it, "empty"))
    /\ last' = Step("fetch", Top.it, "empty")
    /\ stack' = Pop
    /\ UNCHANGED <<pure, mainv, item, template, root_url, rule_count, refs>>

\* lines 184-191: _fetch_url raises an exception that line 107 does not
\* catch (an invalid URL, a connection reset while reading); it leaves every
\* active call and process(), and line 290 catches it
FetchRaises ==
    /\ pc = "process" /\ stack # <<>> /\ Top.at = "entry"
    /\ ~IsVisited(Top.it)
    /\ visited' = MarkVisited(Top.it)
    /\ out_lines' = WithSeparator(out_lines)
    /\ fetchlog' = Append(fetchlog, Fetched(Top.it, "raised"))
    /\ stack' = <<>>
    /\ errors' = Append(errors, <<"unexpected", item, "Exception">>)
    /\ idx' = idx + 1
    /\ pc' = "loop"
    /\ last' = Step("fetch", Top.it, "raised")
    /\ UNCHANGED <<pure, items, pool, file, exit_code, started, item, template,
                   root_url, rule_count, refs>>

\* lines 184-195: _fetch_url returns a body of n lines, n >= 1
FetchOk ==
    /\ pc = "process" /\ stack # <<>> /\ Top.at = "entry"
    /\ ~IsVisited(Top.it)
    /\ visited' = MarkVisited(Top.it)
    /\ out_lines' = WithSeparator(out_lines)
    /\ fetchlog' = Append(fetchlog, Fetched(Top.it, "ok"))
    /\ \E n \in 1..MaxBodyLines :
          stack' = [stack EXCEPT ![Len(stack)] = [it |-> Top.it, at |-> "loop", left |-> n]]
    /\ last' = Step("fetch", Top.it, "ok")
    /\ UNCHANGED <<pure, mainv, item, template, root_url, rule_count, refs>>

\* the raw lines of the model's resources
Line_domain == <<"a", ".", "b">>

Line_blank == <<>>

Line_comment == <<"#", "c">>

Line_regexp == Str_regexp \o <<BS, "A", "a", "/">>

Line_fullEmpty == Str_full

Line_dot == <<"*", ".">>

Line_include_gfw == <<"I", "n", "c", "l", "u", "d", "e", ":">> \o Name_gfw

Line_include_b == Str_include \o Name_b

Line_include_c == Str_include \o Name_c \o <<" ", "@", "x">>

Names == {Name_gfw, Name_b, Name_c}

IncludeLines == {Line_include_gfw, Line_include_b, Line_include_c}

RuleLines == {Line_domain, Line_blank, Line_comment, Line_regexp, Line_fullEmpty, Line_dot}

\* _process_line on each of these lines
LineEffect == [raw \in RuleLines \cup IncludeLines |-> ProcessLine(raw)]

\* lines 120-131, 154 and 174: the effects that append their text
AppendedKinds == {"blank", "comment", "regexp", "rule"}

\* a variant that does not count regexp rules
CountedKindsNoRegexp == {"rule"}

\* lines 155 and 175: the effects that add one to rule_count
CountedKinds == {"regexp", "rule"}

\* the loop of line 195 moves to its next line
LineRead == [stack EXCEPT ![Len(stack)].left = @ - 1]

\* lines 195-196: the loop hands its next line to _process_line (lines
\* 111-175); an include line makes the nested call of line 146
ProcessLineStep ==
    /\ pc = "process" /\ stack # <<>> /\ Top.at = "loop" /\ Top.left > 0
    /\ \E raw \in pool :
          /\ out_lines' = IF LineEffect[raw].kind \in AppendedKinds
                          THEN Append(out_lines, LineEffect[raw].text) ELSE out_lines
          /\ rule_count' = IF LineEffect[raw].kind \in CountedKinds
                           THEN rule_count + 1 ELSE rule_count
          /\ stack' = IF LineEffect[raw].kind = "include"
                      THEN Append(LineRead, [it |-> LineEffect[raw].text,
                                             at |-> "entry", left |-> 0])
                      ELSE LineRead
          /\ refs' = IF LineEffect[raw].kind = "include"
                     THEN refs \cup {<<Top.it, LineEffect[raw].text>>} ELSE refs
          /\ last' = Step("line", raw, LineEffect[raw].kind)
    /\ UNCHANGED <<pure, mainv, item, template, root_url, visited, fetchlog>>

\* the loop of lines 195-196 is over, the call returns
CallReturns ==
    /\ pc = "process" /\ stack # <<>> /\ Top.at = "loop" /\ Top.left = 0
    /\ stack' = Pop
    /\ last' = Step("return", Top.it, "ok")
    /\ UNCHANGED <<pure, mainv, item, template, root_url, visited, out_lines,
                   rule_count, fetchlog, refs>>

(***************************************************************************)
(* The pure functions applied on their own.                                *)
(***************************************************************************)
Idle ==
    /\ items = <<>> /\ pool = {} /\ pc = "idle" /\ idx = 0
    /\ file = [header |-> <<>>, blocks |-> <<>>]
    /\ errors = <<>> /\ exit_code = -1 /\ started = <<>>
    /\ NoProcessor
    /\ last = NoStep

Apply(name, result) ==
    /\ fn = "none"
    /\ fn' = name
    /\ ret' = result
    /\ UNCHANGED <<arg, mainv, proc, last>>

PatternChars == {BS, "A", "z", "Z", "/", "a"}

DomainChars == {"a", ".", "*", "/", ":"}

RawChars == {"a", BS, "@", "#", " ", "."}

ApplyConvert == Apply("convert", convert_go_regex_to_js(arg))

ApplyNormalize == Apply("normalize", NormalizeDomain(arg))

ApplyProcessLine == Apply("line", ProcessLine(arg))

InitPure(strings) == arg \in strings /\ ret = <<>> /\ fn = "none" /\ Idle

RegexSpec == InitPure(StringsUpTo(PatternChars, MaxPatLen)) /\ [][ApplyConvert]_vars

NormSpec == InitPure(StringsUpTo(DomainChars, MaxDomLen)) /\ [][ApplyNormalize]_vars

LineSpec == InitPure(StringsUpTo(RawChars, MaxRawLen)) /\ [][ApplyProcessLine]_vars

(***************************************************************************)
(* The program.                                                            *)
(***************************************************************************)
Next ==
    \/ OpenOutput
    \/ OpenOutputFails
    \/ StartItem
    \/ CallSkipped
    \/ FetchFails
    \/ FetchRaises
    \/ FetchOk
    \/ ProcessLineStep
    \/ CallReturns
    \/ WriteBlock
    \/ WriteBlockFails
    \/ Finish
    \/ FinishFails

\* one root item; resources made of a rule line and of include lines
Init == InitMain({<<n>> : n \in Names}, {Line_domain} \cup IncludeLines)

Spec == Init /\ [][Next]_vars

\* every step of the program is taken in the end: the program is sequential,
\* and its one blocking call, urlopen, has a timeout (line 105)
LiveSpec == Init /\ [][Next]_vars /\ WF_vars(Next)

\* one root item; resources made of every kind of line and of one include
InitLines ==
    InitMain({<<Name_gfw>>}, RuleLines \cup {Line_include_b})

LinesSpec == InitLines /\ [][Next]_vars

\* up to MaxItems root items; resources made of a rule line and of one include
InitItems ==
    InitMain(ItemLists({Name_gfw, Name_b}, MaxItems), {Line_domain, Line_include_b})

MainSpec == InitItems /\ [][Next]_vars

(***************************************************************************)
(* Properties.                                                             *)
(***************************************************************************)
FetchCount(n) == Cardinality({i \in DOMAIN fetchlog : fetchlog[i].it = n})

\* the names referenced from the root: the root and every include target read
Referenced == (IF item = <<>> THEN {} ELSE {item}) \cup {r[2] : r \in refs}

\* process() has returned (line 270 is done, line 271 is next)
ProcessReturned == pc = "process" /\ stack = <<>>

\* C1: within one process() call no name is fetched twice, and the number of
\* fetches never exceeds the number of distinct names referenced from the root.
C1_FetchedAtMostOnce ==
    /\ \A i, j \in DOMAIN fetchlog : fetchlog[i].it = fetchlog[j].it => i = j
    /\ Len(fetchlog) <= Cardinality(Referenced)

\* C1 witness: the root includes B directly and through C, process() has
\* returned and B was fetched once.
C1_DedupReached ==
    /\ ProcessReturned
    /\ \E B, C \in Names :
          /\ Cardinality({item, B, C}) = 3
          /\ {<<item, B>>, <<item, C>>, <<C, B>>} \subseteq refs
          /\ FetchCount(B) = 1

\* C2: every process() call comes to its end and the program ends, whatever
\* the include graph; when process() returns, every name referenced from the
\* root, the names of include cycles among them, was fetched exactly once.
C2_CyclesTerminate ==
    /\ <>(pc = "done")
    /\ [](pc = "process" => <>(stack = <<>>))
    /\ [](ProcessReturned => \A n \in Referenced : FetchCount(n) = 1)

\* C2 witness: process() has returned from a root on an include cycle of two
\* names, each of which includes the other.
C2_CycleResolved ==
    /\ ProcessReturned
    /\ \E B \in Names : B # item /\ {<<item, B>>, <<B, item>>} \subseteq refs
    /\ \A n \in Referenced : FetchCount(n) = 1

\* a _fetch_and_process call whose fetch came back empty or failed
FailedFetchStep == fetchlog' # fetchlog /\ last'.op = "fetch" /\ last'.kind = "empty"

\* C3: a _fetch_and_process call whose fetch fails or returns an empty body
\* leaves the output sequence and the rule count as they were before the call.
C3_FailedFetchAddsNoLines ==
    [][FailedFetchStep => out_lines' = out_lines /\ rule_count' = rule_count]_vars

\* C4: an IOError on the output file is always reported as a write failure and
\* ends the run with status 1; it is never reported as an unexpected error of
\* a root item with the run going on.
C4_WriteFailureIsFatal ==
    \A i \in DOMAIN errors :
        errors[i][3] = "IOError" =>
            errors[i][1] = "write" /\ pc = "done" /\ exit_code = 1

Unexpected == {i \in DOMAIN errors : errors[i][1] = "unexpected"}

\* the root items whose processing is over
Completed == idx - 1

\* C5: a fault raised while a root item is processed is caught at that item:
\* it writes no block, the root items are started in input order, every one of
\* them is started by the time the file is closed, and each starts with an
\* empty visited set, empty output and count 0, so that its root is fetched.
C5_FaultKeptAtItemBoundary ==
    /\ [](/\ Len(started) <= Len(items)
          /\ started = SubSeq(items, 1, Len(started))
          /\ Len(file.blocks) + Cardinality(Unexpected) = Completed
          /\ (last.op = "close" => started = items))
    /\ [][last'.kind = "raised" /\ errors' # errors =>
            file' = file /\ exit_code' = exit_code /\ idx' = idx + 1]_vars
    /\ [][started' # started =>
            visited' = {} /\ out_lines' = <<>> /\ rule_count' = 0]_vars
    /\ [][last'.op = "skip" /\ stack' # stack => Len(stack) >= 2]_vars

\* C5 witness: the first of two root items raised a fault, the second was
\* processed and its block is the only one in the file.
C5_LaterItemProcessed ==
    /\ pc = "done" /\ exit_code = 0
    /\ Len(items) = 2 /\ started = items
    /\ Len(errors) = 1 /\ errors[1] = <<"unexpected", items[1], "Exception">>
    /\ Len(file.blocks) = 1
    /\ file.blocks[1][1] = make_border_line(items[2], Str_BEGIN)

\* a line of the form ||domain, |domain or /pattern/
IsMatchRule(l) ==
    \/ Len(l) >= 2 /\ l[1] = "|"
    \/ Len(l) >= 3 /\ l[1] = "/" /\ l[Len(l)] = "/"

\* a blank line or a comment line
IsBlankOrComment(l) == l = <<>> \/ l[1] = "!"

\* C6: rule_count is the number of match-rule lines of the output, every other
\* line being blank or a comment; it never decreases during process(), and a
\* dropped line changes neither the output nor the count.
C6_RuleCountMatchesOutput ==
    /\ [](/\ rule_count = Cardinality({i \in DOMAIN out_lines : IsMatchRule(out_lines[i])})
          /\ \A i \in DOMAIN out_lines :
                IsMatchRule(out_lines[i]) # IsBlankOrComment(out_lines[i]))
    /\ [][started' = started => rule_count' >= rule_count]_vars
    /\ [][last'.op = "line" /\ last'.kind = "drop" /\ stack' # stack =>
            out_lines' = out_lines /\ rule_count' = rule_count]_vars

\* C6 witness: two rules counted in an output that also holds a blank line,
\* right after a line was dropped.
C6_CountedAndDropped ==
    /\ last.op = "line" /\ last.kind = "drop"
    /\ rule_count = 2 /\ Len(out_lines) = 3
    /\ \E i \in DOMAIN out_lines : out_lines[i] = <<>>

\* C7: the template is the one of the root item, and every fetch of the
\* processor uses it with the fetched name substituted.
C7_RootTemplateForEveryFetch ==
    /\ item # <<>> => template = SelectTemplate(item) /\ root_url = Format(template, item)
    /\ \A i \in DOMAIN fetchlog :
          fetchlog[i].url = Format(SelectTemplate(item), fetchlog[i].it)

\* C7 witness: a name of KNOWN, included from a root that is not in KNOWN, was
\* fetched from the community template.
C7_KnownNameFromCommunity ==
    /\ item # <<>> /\ item \notin KNOWN
    /\ \E i \in DOMAIN fetchlog :
          /\ fetchlog[i].it \in KNOWN
          /\ fetchlog[i].url = <<TemplateCommunity[1], fetchlog[i].it, TemplateCommunity[2]>>

Markers == {"@", "#"}

\* the line is neither blank nor a full-line comment (steps 1 and 2)
IsRuleText(s) ==
    /\ s # <<>>
    /\ ~StartsWith(s, <<"#">>) /\ ~StartsWith(s, <<"/", "/">>) /\ ~StartsWith(s, <<"!">>)

\* what steps 3 to 5 do with the text kept by the cut
AfterCut(kept) == IF kept = <<>> THEN Effect("drop", <<>>) ELSE Directive(kept)

\* C8 as stated: the line is cut at the first '@' or '#' that no backslash
\* precedes, and the rule is made of the text before it.
C8_CutAtFirstUnescapedMarker ==
    fn = "line" /\ IsRuleText(Strip(arg)) =>
        ret = AfterCut(RemoveInlineCommentEscaped(Strip(arg)))

\* the lengths n such that the first n characters of s hold no marker and a
\* marker, or the end of s, follows them
CutPoints(s) ==
    {n \in 0..Len(s) : /\ \A i \in 1..n : s[i] \notin Markers
                       /\ (n = Len(s) \/ s[n + 1] \in Markers)}

\* C8 amended: the line is cut at the first '@' or '#' whether or not a
\* backslash precedes it; the rule is made of the text before that marker
\* without its trailing whitespace, and no emitted line holds a marker.
C8_CutAtFirstMarker ==
    fn = "line" /\ IsRuleText(Strip(arg)) =>
        /\ CutPoints(Strip(arg)) # {}
        /\ \A n \in CutPoints(Strip(arg)) :
              ret = AfterCut(RStripChars(SubSeq(Strip(arg), 1, n), Whitespace))
        /\ \A i \in DOMAIN ret.text : ret.text[i] \notin Markers

\* C8 witness: the line a\@a was processed and gave the rule ||a\ .
C8_EscapedMarkerCut ==
    /\ fn = "line" /\ arg = <<"a", BS, "@", "a">>
    /\ ret = Effect("rule", <<"|", "|", "a", BS>>)

HasChar(s, cs) == \E i \in DOMAIN s : s[i] \in cs

\* C9 as stated: normalising the result of the normalisation changes nothing,
\* and the result starts with neither '*.' nor '.' and holds no '/' or ':'.
C9_NormalizeIdempotent ==
    fn = "normalize" =>
        /\ NormalizeDomain(ret) = ret
        /\ ~StartsWith(ret, <<"*", ".">>) /\ ~StartsWith(ret, <<".">>)
        /\ ~HasChar(ret, {"/", ":"})

\* C9 amended: the result never starts with '.' and holds no '/' or ':';
\* normalising it again changes it exactly when it starts with '*.', which it
\* can, only one leading '*.' being dropped.
C9_NormalizeIdempotentUnlessWildcard ==
    fn = "normalize" =>
        /\ ~StartsWith(ret, <<".">>)
        /\ ~HasChar(ret, {"/", ":"})
        /\ (NormalizeDomain(ret) = ret) = ~StartsWith(ret, <<"*", ".">>)

\* C9 witness: *.*.a was normalised to *.a, which normalises to a.
C9_DoubleWildcard ==
    /\ fn = "normalize" /\ arg = <<"*", ".", "*", ".", "a">>
    /\ ret = <<"*", ".", "a">>
    /\ NormalizeDomain(ret) = <<"a">>

\* position i of p starts an anchor no backslash precedes
AnchorAt(p, i) ==
    /\ i >= 1 /\ i < Len(p)
    /\ p[i] = BS /\ p[i + 1] \in {"A", "z", "Z"}
    /\ (i = 1 \/ p[i - 1] # BS)

\* what position i of p contributes to the converted pattern
Piece(p, i) ==
    IF AnchorAt(p, i) THEN (IF p[i + 1] = "A" THEN <<"^">> ELSE <<"$">>)
    ELSE IF AnchorAt(p, i - 1) THEN <<>>
    ELSE IF p[i] = "/" /\ (i = 1 \/ p[i - 1] # BS) THEN <<BS, "/">>
    ELSE <<p[i]>>

RECURSIVE Pieces(_, _)
Pieces(p, i) == IF i > Len(p) THEN <<>> ELSE Piece(p, i) \o Pieces(p, i + 1)

\* C10: the converted pattern is the pattern with every \A, \z, \Z and /
\* that no backslash precedes replaced by ^, $, $ and \/, everything else
\* kept in its order.
C10_ConvertReplacesUnescaped ==
    fn = "convert" => ret = Pieces(arg, 1)

\* C10 witness: \A\/ was converted to ^\/ : the anchor replaced, the escaped
\* slash kept.
C10_AnchorAndEscapedSlash ==
    /\ fn = "convert" /\ arg = <<BS, "A", BS, "/">>
    /\ ret = <<"^", BS, "/">>

=============================================================================
